---- MODULE Spec2Model ----
(***************************************************************************)
(* Model of lambda_py/container_draining.py: the Lambda handler that       *)
(* drains an ECS container instance while its Auto Scaling lifecycle hook  *)
(* is pending.  The remote services (EC2 user data, ECS container          *)
(* instances and tasks, the Auto Scaling hook, the SNS topic) are state    *)
(* variables; every remote call of the handler is one step, so that the    *)
(* remote state may change between two calls of one invocation.            *)
(***************************************************************************)
EXTENDS Integers, Sequences, FiniteSets, TLC

(* ------------------------------ bounds --------------------------------- *)

\* Largest retry_count a received message may carry and still be republished.
MaxRetry == 3

\* Largest number of tasks on one container instance.
MaxTasks == 1

\* Largest retry_count fed to the backoff computation in BackoffSpec.
MaxBackoffRetry == 6

\* Largest number of tokens of a boot configuration in ClusterSpec.
MaxTokens == 3

(* ------------------------- program constants --------------------------- *)

\* random.randint(0, 1000): the jitter in milliseconds.
JitterMax == 1000

\* The cap of the backoff, min(..., 30), in seconds.
SleepCap == 30

\* The initial value of cluster_name.
DefaultCluster == "default"

\* The substring looked for in the user data tokens.
ClusterMarker == "ECS_CLUSTER"

\* The substring looked for in LifecycleTransition.
TerminatingMarker == "autoscaling:EC2_INSTANCE_TERMINATING"

\* Python's None.
None == "None"

(* ---------------------------- the universe ----------------------------- *)

\* The identifiers of the invocations Lambda may run at the same time.
InvocationIds == {1, 2}

Ec2Ids == {"i-1", "i-2"}

Arns == {"ci-1", "ci-2"}

\* The instances of the Auto Scaling group whose hook notifies the handler.
AsgInstances == {"i-1"}

AsgName == "asg-1"

HookName == "hook-1"

\* A user-data token after token.split("="): the sequence of its parts.
\* The samples: the usual shell line writing ECS_CLUSTER=prod, a script that
\* never mentions the marker, and a script that mentions the marker in a
\* token without "=".
UserDataSamples ==
  { << <<"echo">>, <<"ECS_CLUSTER", "prod">>, <<">>">>, <<"/etc/ecs/ecs.config">> >>,
    << <<"yum">>, <<"update">> >>,
    << <<"#">>, <<"ECS_CLUSTER">>, <<"echo">>, <<"ECS_CLUSTER", "prod">> >> }

(* ------------------------ variables: remote state ---------------------- *)

VARIABLES
  userData,     \* EC2: the split user data of each instance
  ec2Of,        \* ECS: the ec2InstanceId of each container instance
  clusterOf,    \* ECS: the cluster each container instance registered in
  registered,   \* ECS: whether the container instance is still listed
  status,       \* ECS: "ACTIVE" or "DRAINING"
  tasks,        \* ECS: the number of tasks on the container instance
  hook,         \* Auto Scaling: the lifecycle action of each instance
  topic,        \* SNS: the messages published and not yet delivered
  republished,  \* SNS: the number of retry messages published per instance
  inv,          \* the locals and the position of each invocation
  backoff       \* the input and the result of one backoff computation

vars == << userData, ec2Of, clusterOf, registered, status, tasks, hook, topic,
           republished, inv, backoff >>

remote == << userData, ec2Of, clusterOf, registered, status, tasks, hook >>

\* The invocations of the behaviour: one unless the initial state gives two.
Invocations == DOMAIN inv

(* ------------------------------ messages ------------------------------- *)

\* A message is a JSON object: a function from its keys to its values.
EmptyMsg == [k \in {} |-> ""]

Has(msg, key) == key \in DOMAIN msg

\* dict.update({key: value})
Update(msg, key, value) ==
  [k \in DOMAIN msg \cup {key} |-> IF k = key THEN value ELSE msg[k]]

\* The notification Auto Scaling sends when the lifecycle hook fires.
TerminatingEvent(i) ==
  [k \in {"EC2InstanceId", "AutoScalingGroupName", "LifecycleHookName",
          "LifecycleTransition"} |->
     CASE k = "EC2InstanceId" -> i
       [] k = "AutoScalingGroupName" -> AsgName
       [] k = "LifecycleHookName" -> HookName
       [] OTHER -> TerminatingMarker]

\* The other notifications of the group: a launching hook, a plain
\* termination notification, and the test notification (no instance id).
OtherEvents(i) ==
  { Update(TerminatingEvent(i), "LifecycleTransition",
           "autoscaling:EC2_INSTANCE_LAUNCHING"),
    [k \in {"EC2InstanceId", "AutoScalingGroupName", "Event"} |->
       CASE k = "EC2InstanceId" -> i
         [] k = "AutoScalingGroupName" -> AsgName
         [] OTHER -> "autoscaling:EC2_INSTANCE_TERMINATE"],
    [k \in {"AutoScalingGroupName", "Event"} |->
       IF k = "AutoScalingGroupName" THEN AsgName
       ELSE "autoscaling:TEST_NOTIFICATION"] }

(* ---------------------------- pure functions --------------------------- *)

Min(a, b) == IF a <= b THEN a ELSE b

\* "ECS_CLUSTER" in token, on the split token.
HasClusterMarker(token) == \E n \in 1..Len(token) : token[n] = ClusterMarker

\* The loop of get_ecs_cluster_name over the tokens, from position n with
\* the cluster name found so far; token.split("=")[1] raises IndexError on
\* a marker token without "=".
RECURSIVE ScanTokens(_, _, _)
ScanTokens(tokens, n, name) ==
  IF n > Len(tokens) THEN [raised |-> FALSE, cluster_name |-> name]
  ELSE IF HasClusterMarker(tokens[n])
       THEN IF Len(tokens[n]) < 2
            THEN [raised |-> TRUE, cluster_name |-> name]
            ELSE ScanTokens(tokens, n + 1, tokens[n][2])
       ELSE ScanTokens(tokens, n + 1, name)

get_ecs_cluster_name(tokens) == ScanTokens(tokens, 1, DefaultCluster)

\* message['LifecycleTransition'].find(marker) > -1, over the transitions
\* Auto Scaling sends.
FindTerminating(transition) == IF transition = TerminatingMarker THEN 0 ELSE -1

IsTerminatingMut(msg) == Has(msg, "LifecycleTransition")

\* The two conditions guarding the body of lambda_handler.
IsTerminating(msg) ==
  /\ Has(msg, "LifecycleTransition")
  /\ FindTerminating(msg["LifecycleTransition"]) > -1

\* message.get('retry_count', 1)
RetryCount(msg) == IF Has(msg, "retry_count") THEN msg["retry_count"] ELSE 1

SleepTimeMut(retry_count, jitter) == (2 ^ retry_count) * 1000 + jitter

\* min((2 ** retry_count) + (jitter / 1000), 30), in milliseconds.
SleepTime(retry_count, jitter) ==
  Min((2 ^ retry_count) * 1000 + jitter, SleepCap * 1000)

RepublishedMessageDropsHook(msg) ==
  [k \in (DOMAIN msg \ {"LifecycleHookName"}) \cup {"retry_count"} |->
     IF k = "retry_count" THEN RetryCount(msg) + 1 ELSE msg[k]]

RepublishedMessageDropsTransition(msg) ==
  [k \in (DOMAIN msg \ {"LifecycleTransition"}) \cup {"retry_count"} |->
     IF k = "retry_count" THEN RetryCount(msg) + 1 ELSE msg[k]]

RepublishedMessageMut(msg) == Update(msg, "retry_count", RetryCount(msg) + 2)

\* retry_count += 1; message.update({"retry_count": retry_count})
RepublishedMessage(msg) == Update(msg, "retry_count", RetryCount(msg) + 1)

NeedsDrainingAlways(container_status) == TRUE

NeedsDrainingMut(container_status) == FALSE

\* The else branch of `if container_status == 'DRAINING'`.
NeedsDraining(container_status) == container_status # "DRAINING"

TasksRunningAlways(running_task_count) == 1

TasksRunningMut(running_task_count) == IF running_task_count > 1 THEN 1 ELSE 0

\* The first value container_instance_task_status returns.
TasksRunning(running_task_count) == IF running_task_count > 0 THEN 1 ELSE 0

MatchesMut(entry, ec2_instance_id) == TRUE

\* container_instances['ec2InstanceId'] == ec2_instance_id
Matches(entry, ec2_instance_id) == entry.ec2InstanceId = ec2_instance_id

\* if tmp_msg_append != None: message.update(tmp_msg_append)
Merge(msg, container_instance_id) ==
  IF container_instance_id # None
  THEN Update(msg, "container_instance_id", container_instance_id)
  ELSE msg

(* ----------------------------- initial state --------------------------- *)

\* The locals of an invocation that is not running.
IdleInv ==
  [ pc |-> "idle", received |-> EmptyMsg, message |-> EmptyMsg,
    cluster_name |-> None, described |-> << >>, idx |-> 0,
    container_instance_id |-> None, running_task_count |-> 0,
    tasks_running |-> 0, sleep_time |-> 0, calls |-> << >> ]

NoBackoff == [message |-> EmptyMsg, jitter |-> 0, sleep_time |-> -1]

\* The cluster the ECS agent of the instance registers in: the one its user
\* data configures (the last KEY=value marker token read before the scan
\* ends or raises, "default" when there is none).
AgentCluster(tokens) == get_ecs_cluster_name(tokens).cluster_name

InitRemote ==
  /\ userData \in [Ec2Ids -> UserDataSamples]
  /\ ec2Of \in [Arns -> Ec2Ids]
  /\ ec2Of["ci-1"] = "i-1"
  /\ clusterOf = [a \in Arns |-> AgentCluster(userData[ec2Of[a]])]
  /\ registered \in [Arns -> BOOLEAN]
  /\ status \in [Arns -> {"ACTIVE", "DRAINING"}]
  /\ tasks \in [Arns -> 0..MaxTasks]
  /\ \A a \in Arns : ~registered[a] => status[a] = "ACTIVE" /\ tasks[a] = 0
  /\ hook = [i \in Ec2Ids |-> IF i \in AsgInstances THEN "none" ELSE "no_hook"]
  /\ topic = {}
  /\ republished = [i \in Ec2Ids |-> 0]

Init ==
  /\ InitRemote
  /\ inv = [p \in {1} |-> IdleInv]
  /\ backoff = NoBackoff

(* --------------------------- the environment --------------------------- *)

\* Auto Scaling starts terminating instance i: the hook is pending and the
\* notification is on the topic.
AsgTerminate(i) ==
  /\ hook[i] = "none"
  /\ hook' = [hook EXCEPT ![i] = "pending"]
  /\ topic' = topic \cup {TerminatingEvent(i)}
  /\ UNCHANGED << userData, ec2Of, clusterOf, registered, status, tasks,
                  republished, inv, backoff >>

\* Auto Scaling sends another notification of the group, one at a time.
AsgOtherEvent(i) ==
  /\ hook[i] # "no_hook"
  /\ \A m \in topic : IsTerminating(m)
  /\ \E m \in OtherEvents(i) : topic' = topic \cup {m}
  /\ UNCHANGED << remote, republished, inv, backoff >>

\* A task of a container instance stops.
TaskStops(a) ==
  /\ registered[a]
  /\ tasks[a] > 0
  /\ tasks' = [tasks EXCEPT ![a] = @ - 1]
  /\ UNCHANGED << userData, ec2Of, clusterOf, registered, status, hook, topic,
                  republished, inv, backoff >>

\* A container instance is deregistered: it is no longer listed and has no
\* tasks.
Deregister(a) ==
  /\ registered[a]
  /\ registered' = [registered EXCEPT ![a] = FALSE]
  /\ tasks' = [tasks EXCEPT ![a] = 0]
  /\ UNCHANGED << userData, ec2Of, clusterOf, status, hook, topic,
                  republished, inv, backoff >>

\* The lifecycle hook times out before the handler completes it.
HookTimeout(i) ==
  /\ hook[i] = "pending"
  /\ hook' = [hook EXCEPT ![i] = "expired"]
  /\ UNCHANGED << userData, ec2Of, clusterOf, registered, status, tasks, topic,
                  republished, inv, backoff >>

(* ----------------------------- the handler ----------------------------- *)

\* One remote call, as recorded in the invocation's list of calls.
Call(api, target, result) == [api |-> api, target |-> target, result |-> result]

\* The position after the loop over the described container instances:
\* `if container_instance_id != None` lists the tasks, otherwise the function
\* returns 0, None and the handler goes to the completion branch.
AfterLoop(container_instance_id) ==
  IF container_instance_id # None THEN "list_tasks" ELSE "complete"

\* The sequences listing every element of S once.
Orderings(S) ==
  { s \in [1..Cardinality(S) -> S] : \A x \in S : \E n \in DOMAIN s : s[n] = x }

\* lambda_handler trusting the message: a message that carries a
\* container_instance_id skips the lookup and lists the tasks of that one.
ReceiveTrusting(p, m) ==
  /\ inv[p].pc = "idle"
  /\ m \in topic
  /\ topic' = topic \ {m}
  /\ LET trusted == Has(m, "container_instance_id")
         next == IF ~Has(m, "EC2InstanceId") \/ ~Has(m, "AutoScalingGroupName")
                 THEN "failed"
                 ELSE IF IsTerminating(m)
                      THEN IF Has(m, "LifecycleHookName")
                           THEN (IF trusted THEN "list_tasks" ELSE "get_cluster")
                           ELSE "failed"
                      ELSE "done"
     IN inv' = [inv EXCEPT ![p] = [IdleInv EXCEPT
                  !.pc = next,
                  !.received = m,
                  !.message = m,
                  !.container_instance_id =
                     IF trusted /\ next = "list_tasks"
                     THEN m["container_instance_id"] ELSE None]]
  /\ UNCHANGED << remote, republished, backoff >>

\* lambda_handler up to the call of container_instance_task_status: parse the
\* record, read the two mandatory keys (KeyError when absent) and test the
\* lifecycle transition.
Receive(p, m) ==
  /\ inv[p].pc = "idle"
  /\ m \in topic
  /\ topic' = topic \ {m}
  /\ LET next == IF ~Has(m, "EC2InstanceId") \/ ~Has(m, "AutoScalingGroupName")
                 THEN "failed"
                 ELSE IF IsTerminating(m)
                      THEN IF Has(m, "LifecycleHookName")
                           THEN "get_cluster" ELSE "failed"
                      ELSE "done"
     IN inv' = [inv EXCEPT ![p] = [IdleInv EXCEPT !.pc = next,
                                                  !.received = m,
                                                  !.message = m]]
  /\ UNCHANGED << remote, republished, backoff >>

\* get_ecs_cluster_name: read the user data of the instance and scan it.
GetEcsClusterName(p) ==
  /\ inv[p].pc = "get_cluster"
  /\ LET id == inv[p].message["EC2InstanceId"]
         r == get_ecs_cluster_name(userData[id])
         c == Append(inv[p].calls, Call("describe_instance_attribute", id, "ok"))
     IN inv' = [inv EXCEPT ![p].calls = c,
                           ![p].cluster_name = r.cluster_name,
                           ![p].pc = IF r.raised THEN "failed"
                                     ELSE "list_instances"]
  /\ UNCHANGED << remote, topic, republished, backoff >>

\* list_container_instances and describe_container_instances of the resolved
\* cluster; the order of the description is the service's choice.
DescribeContainerInstances(p) ==
  /\ inv[p].pc = "list_instances"
  /\ LET listed == { a \in Arns : registered[a]
                                  /\ clusterOf[a] = inv[p].cluster_name }
     IN \E order \in Orderings(listed) :
          LET d == [n \in DOMAIN order |->
                      [containerInstanceArn |-> order[n],
                       ec2InstanceId |-> ec2Of[order[n]],
                       status |-> status[order[n]]]]
              c == inv[p].calls
                     \o << Call("list_container_instances", inv[p].cluster_name, "ok"),
                           Call("describe_container_instances", inv[p].cluster_name, "ok") >>
          IN inv' = [inv EXCEPT ![p].calls = c,
                                ![p].described = d,
                                ![p].idx = 1,
                                ![p].pc = IF Len(d) = 0 THEN AfterLoop(None)
                                          ELSE "loop"]
  /\ UNCHANGED << remote, topic, republished, backoff >>

\* One iteration of the loop over the described container instances: a
\* matching one becomes container_instance_id and is set DRAINING unless the
\* description shows it DRAINING.
LoopStep(p) ==
  /\ inv[p].pc = "loop"
  /\ LET entry == inv[p].described[inv[p].idx]
         arn == entry.containerInstanceArn
         match == Matches(entry, inv[p].message["EC2InstanceId"])
         drain == match /\ NeedsDraining(entry.status)
         cid == IF match THEN arn ELSE inv[p].container_instance_id
         c == IF drain
              THEN Append(inv[p].calls,
                          Call("update_container_instances_state", arn, "ok"))
              ELSE inv[p].calls
     IN /\ status' = IF drain /\ registered[arn]
                     THEN [status EXCEPT ![arn] = "DRAINING"]
                     ELSE status
        /\ inv' = [inv EXCEPT ![p].calls = c,
                              ![p].container_instance_id = cid,
                              ![p].idx = @ + 1,
                              ![p].pc = IF inv[p].idx = Len(inv[p].described)
                                        THEN AfterLoop(cid) ELSE "loop"]
  /\ UNCHANGED << userData, ec2Of, clusterOf, registered, tasks, hook, topic,
                  republished, backoff >>

\* list_tasks on the chosen container instance, the return of
\* container_instance_task_status and the merge of tmp_msg_append.
ListTasks(p) ==
  /\ inv[p].pc = "list_tasks"
  /\ LET cid == inv[p].container_instance_id
         n == IF registered[cid] THEN tasks[cid] ELSE 0
     IN inv' = [inv EXCEPT ![p].calls = Append(@, Call("list_tasks", cid, "ok")),
                           ![p].running_task_count = n,
                           ![p].tasks_running = TasksRunning(n),
                           ![p].message = Merge(@, cid),
                           ![p].pc = IF TasksRunning(n) = 1 THEN "publish"
                                     ELSE "complete"]
  /\ UNCHANGED << remote, topic, republished, backoff >>

\* publish_to_sns with a cap: from the second retry on it raises instead
\* of publishing.
PublishToSnsCapped(p) ==
  /\ inv[p].pc = "publish"
  /\ RetryCount(inv[p].message) <= MaxRetry
  /\ \E jitter \in {0, JitterMax} :
       LET out == RepublishedMessage(inv[p].message)
           id == inv[p].message["EC2InstanceId"]
           capped == RetryCount(inv[p].message) >= 2
       IN /\ topic' = IF capped THEN topic ELSE topic \cup {out}
          /\ republished' = IF capped THEN republished
                            ELSE [republished EXCEPT ![id] = @ + 1]
          /\ inv' = IF capped
                    THEN [inv EXCEPT ![p].pc = "failed"]
                    ELSE [inv EXCEPT ![p].sleep_time =
                                       SleepTime(RetryCount(inv[p].message), jitter),
                                     ![p].message = out,
                                     ![p].calls = Append(@, Call("publish", id, "ok")),
                                     ![p].pc = "done"]
  /\ UNCHANGED << remote, backoff >>

\* publish_to_sns: sleep, increment retry_count and publish the message.
PublishToSns(p) ==
  /\ inv[p].pc = "publish"
  /\ RetryCount(inv[p].message) <= MaxRetry
  /\ \E jitter \in {0, JitterMax} :
       LET out == RepublishedMessage(inv[p].message)
           id == inv[p].message["EC2InstanceId"]
       IN /\ topic' = topic \cup {out}
          /\ republished' = [republished EXCEPT ![id] = @ + 1]
          /\ inv' = [inv EXCEPT ![p].sleep_time =
                                   SleepTime(RetryCount(inv[p].message), jitter),
                                ![p].message = out,
                                ![p].calls = Append(@, Call("publish", id, "ok")),
                                ![p].pc = "done"]
  /\ UNCHANGED << remote, backoff >>

OnClientErrorMut == "failed"

\* The except clause of the completion call: log and go on.
OnClientError == "done"

\* The parameters of the completion call: lifecycle_hook_name,
\* asg_group_name and ec2_instance_id, read from the parsed message.
CompletionParameters(msg) ==
  [LifecycleHookName |-> msg["LifecycleHookName"],
   AutoScalingGroupName |-> msg["AutoScalingGroupName"],
   InstanceId |-> msg["EC2InstanceId"]]

\* complete_lifecycle_action: Auto Scaling accepts it while the action of
\* that hook, group and instance is pending and rejects it with a
\* ClientError otherwise.
CompleteLifecycleAction(p) ==
  /\ inv[p].pc = "complete"
  /\ LET id == inv[p].message["EC2InstanceId"]
         ok == /\ hook[id] = "pending"
               /\ CompletionParameters(inv[p].received)
                    = CompletionParameters(TerminatingEvent(id))
     IN /\ hook' = IF ok THEN [hook EXCEPT ![id] = "completed"] ELSE hook
        /\ inv' = [inv EXCEPT ![p].calls =
                                 Append(@, Call("complete_lifecycle_action",
                                                CompletionParameters(inv[p].received),
                                                IF ok THEN "ok" ELSE "ClientError")),
                              ![p].pc = IF ok THEN "done" ELSE OnClientError]
  /\ UNCHANGED << userData, ec2Of, clusterOf, registered, status, tasks, topic,
                  republished, backoff >>

\* The invocation ends, normally or with an uncaught exception.
Finish(p) ==
  /\ inv[p].pc \in {"done", "failed"}
  /\ inv' = [inv EXCEPT ![p] = IdleInv]
  /\ UNCHANGED << remote, topic, republished, backoff >>

(* --------------------------- the specification ------------------------- *)

Environment ==
  \/ \E i \in Ec2Ids : AsgTerminate(i)
  \/ \E i \in Ec2Ids : AsgOtherEvent(i)
  \/ \E a \in Arns : TaskStops(a)
  \/ \E a \in Arns : Deregister(a)
  \/ \E i \in Ec2Ids : HookTimeout(i)

Handler(p) ==
  \/ \E m \in topic : Receive(p, m)
  \/ GetEcsClusterName(p)
  \/ DescribeContainerInstances(p)
  \/ LoopStep(p)
  \/ ListTasks(p)
  \/ PublishToSns(p)
  \/ CompleteLifecycleAction(p)
  \/ Finish(p)

Next == Environment \/ \E p \in Invocations : Handler(p)

Spec == Init /\ [][Next]_vars

(* ------------------- the backoff computation on its own ---------------- *)

\* The messages publish_to_sns may be given: the first notification (no
\* retry_count) and its retries.
BackoffInputs ==
  {TerminatingEvent("i-1")}
    \cup { Update(TerminatingEvent("i-1"), "retry_count", k) : k \in 1..MaxBackoffRetry }

BackoffInit ==
  /\ userData = [i \in Ec2Ids |-> << <<"ECS_CLUSTER", "prod">> >>]
  /\ ec2Of = [a \in Arns |-> IF a = "ci-1" THEN "i-1" ELSE "i-2"]
  /\ clusterOf = [a \in Arns |-> AgentCluster(userData[ec2Of[a]])]
  /\ registered = [a \in Arns |-> TRUE]
  /\ status = [a \in Arns |-> "ACTIVE"]
  /\ tasks = [a \in Arns |-> MaxTasks]
  /\ hook = [i \in Ec2Ids |-> IF i \in AsgInstances THEN "pending" ELSE "no_hook"]
  /\ topic = {}
  /\ republished = [i \in Ec2Ids |-> 0]
  /\ inv = [p \in {1} |-> IdleInv]
  /\ backoff \in [message : BackoffInputs, jitter : 0..JitterMax, sleep_time : {-1}]

\* Lines 43-47 of publish_to_sns applied to the input.
ComputeBackoff ==
  /\ backoff.sleep_time = -1
  /\ backoff' = [backoff EXCEPT !.sleep_time =
                   SleepTime(RetryCount(backoff.message), backoff.jitter)]
  /\ UNCHANGED << remote, topic, republished, inv >>

BackoffNext == ComputeBackoff

BackoffSpec == BackoffInit /\ [][BackoffNext]_vars

(* ------------------------------ properties ----------------------------- *)

\* The number of calls of one API made so far by invocation p.
RECURSIVE CountCalls(_, _)
CountCalls(calls, api) ==
  IF calls = << >> THEN 0
  ELSE (IF Head(calls).api = api THEN 1 ELSE 0) + CountCalls(Tail(calls), api)

Called(p, api) == CountCalls(inv[p].calls, api)

\* The invocation listed the tasks of a matched container instance.
ListedTasks(p) == Called(p, "list_tasks") = 1

\* C1: an invocation that has ended after list_tasks returned an empty task
\* list for the matched container instance has made exactly one
\* complete_lifecycle_action call and no publish call.
C1_EmptyTaskListCompletes ==
  \A p \in Invocations :
    /\ (ListedTasks(p) /\ inv[p].running_task_count = 0)
         => /\ inv[p].pc \in {"complete", "done"}
            /\ Called(p, "publish") = 0
    /\ (ListedTasks(p) /\ inv[p].running_task_count = 0 /\ inv[p].pc = "done")
         => Called(p, "complete_lifecycle_action") = 1

C1_Witness ==
  \E p \in Invocations :
    /\ inv[p].pc = "done"
    /\ ListedTasks(p)
    /\ inv[p].running_task_count = 0
    /\ Called(p, "complete_lifecycle_action") = 1

\* C2: an invocation for which list_tasks returned one or more tasks makes
\* no complete_lifecycle_action call, never changes the hook, and when it
\* has ended it has published exactly one retry message.
C2_TasksRemainingRepublishes ==
  \A p \in Invocations :
    /\ (ListedTasks(p) /\ inv[p].running_task_count > 0)
         => /\ inv[p].pc \in {"publish", "done"}
            /\ Called(p, "complete_lifecycle_action") = 0
    /\ (ListedTasks(p) /\ inv[p].running_task_count > 0 /\ inv[p].pc = "done")
         => /\ Called(p, "publish") = 1
            /\ inv[p].message["retry_count"] = RetryCount(inv[p].received) + 1

C2_Witness ==
  \E p \in Invocations :
    /\ inv[p].pc = "done"
    /\ ListedTasks(p)
    /\ inv[p].running_task_count > 0
    /\ Called(p, "publish") = 1
    /\ hook[inv[p].received["EC2InstanceId"]] = "pending"

\* The invocation described the cluster and no described container instance
\* has the ec2InstanceId of the event.
NotFound(p) ==
  /\ Called(p, "describe_container_instances") = 1
  /\ inv[p].pc \in {"complete", "done"}
  /\ \A n \in DOMAIN inv[p].described :
       inv[p].described[n].ec2InstanceId # inv[p].received["EC2InstanceId"]

\* C3: when no described container instance of the resolved cluster has the
\* event's instance id, the invocation makes no set-DRAINING call, no
\* list_tasks call and no publish call, and ends with one completion call.
C3_NotFoundCompletesWithoutDraining ==
  \A p \in Invocations :
    NotFound(p)
      => /\ Called(p, "update_container_instances_state") = 0
         /\ Called(p, "list_tasks") = 0
         /\ Called(p, "publish") = 0
         /\ inv[p].tasks_running = 0
         /\ inv[p].pc = "done" => Called(p, "complete_lifecycle_action") = 1

C3_Witness ==
  \E p \in Invocations :
    /\ NotFound(p)
    /\ inv[p].pc = "done"
    /\ \E n \in DOMAIN inv[p].described : inv[p].described[n].status = "ACTIVE"
    /\ Called(p, "complete_lifecycle_action") = 1

\* The message has no LifecycleTransition, or one without the marker.
NotTerminating(msg) ==
  \/ ~Has(msg, "LifecycleTransition")
  \/ msg["LifecycleTransition"] # TerminatingMarker

\* C4: an invocation that received a message without LifecycleTransition, or
\* with a LifecycleTransition that does not contain the terminating marker,
\* makes no remote call at all and goes from its receipt straight to its end.
C4_OtherEventsHaveNoEffect ==
  \A p \in Invocations :
    (inv[p].pc # "idle" /\ NotTerminating(inv[p].received))
      => /\ inv[p].calls = << >>
         /\ inv[p].pc \in {"done", "failed"}
         /\ inv[p].message = inv[p].received

C4_Witness ==
  \E p \in Invocations :
    /\ inv[p].pc = "done"
    /\ Has(inv[p].received, "LifecycleTransition")
    /\ NotTerminating(inv[p].received)
    /\ inv[p].calls = << >>

\* The backoff of the computation that has been applied: its retry_count,
\* and 2 ** retry_count in milliseconds.
BackoffDone == backoff.sleep_time # -1

BackoffBase == (2 ^ RetryCount(backoff.message)) * 1000

\* C5 as stated: for every retry_count >= 1 the delay lies between
\* 2^retry_count and 2^retry_count + 1 seconds and is at most 30 seconds.
C5_DelayWithinExponentialBounds ==
  (BackoffDone /\ RetryCount(backoff.message) >= 1)
    => /\ BackoffBase <= backoff.sleep_time
       /\ backoff.sleep_time <= BackoffBase + 1000
       /\ backoff.sleep_time <= SleepCap * 1000

\* C5 amended: the delay is at most 30 seconds; it lies between 2^retry_count
\* and 2^retry_count + 1 seconds while 2^retry_count + 1 <= 30 (retry_count
\* 1..4), and it is exactly 30 seconds once 2^retry_count >= 30
\* (retry_count >= 5), which is below 2^retry_count.
C5_DelayCappedExponential ==
  (BackoffDone /\ RetryCount(backoff.message) >= 1)
    => /\ backoff.sleep_time <= SleepCap * 1000
       /\ (BackoffBase + 1000 <= SleepCap * 1000)
            => /\ BackoffBase <= backoff.sleep_time
               /\ backoff.sleep_time <= BackoffBase + 1000
               /\ backoff.sleep_time = BackoffBase + backoff.jitter
       /\ (BackoffBase >= SleepCap * 1000)
            => backoff.sleep_time = SleepCap * 1000

C5_Witness ==
  /\ BackoffDone
  /\ RetryCount(backoff.message) = 5
  /\ backoff.jitter = JitterMax
  /\ backoff.sleep_time = SleepCap * 1000

\* The invocation has ended after publishing a retry message, which is
\* inv[p].message; the message it received is inv[p].received.
Republished(p) == inv[p].pc = "done" /\ Called(p, "publish") = 1

\* C6 as stated: the published message has the received retry_count plus one
\* and every other field of the received message with its received value.
C6_RepublishPreservesAllFields ==
  \A p \in Invocations :
    Republished(p)
      => /\ inv[p].message["retry_count"] = RetryCount(inv[p].received) + 1
         /\ \A k \in DOMAIN inv[p].received \ {"retry_count"} :
              Has(inv[p].message, k) /\ inv[p].message[k] = inv[p].received[k]

\* C6 amended: the published message has the received retry_count plus one,
\* every other received field except container_instance_id with its received
\* value, and as container_instance_id the ARN resolved by this invocation
\* (the last matching description), whatever the received message carried.
C6_RepublishPreservesFieldsButResolvedId ==
  \A p \in Invocations :
    Republished(p)
      => /\ inv[p].message["retry_count"] = RetryCount(inv[p].received) + 1
         /\ \A k \in DOMAIN inv[p].received \ {"retry_count", "container_instance_id"} :
              Has(inv[p].message, k) /\ inv[p].message[k] = inv[p].received[k]
         /\ DOMAIN inv[p].message =
              DOMAIN inv[p].received \cup {"retry_count", "container_instance_id"}
         /\ \E n \in DOMAIN inv[p].described :
              /\ inv[p].described[n].ec2InstanceId = inv[p].received["EC2InstanceId"]
              /\ inv[p].message["container_instance_id"] =
                   inv[p].described[n].containerInstanceArn
              /\ \A k \in DOMAIN inv[p].described :
                   k > n => inv[p].described[k].ec2InstanceId
                              # inv[p].received["EC2InstanceId"]

C6_Witness ==
  \E p \in Invocations :
    /\ Republished(p)
    /\ Has(inv[p].received, "container_instance_id")
    /\ inv[p].received["container_instance_id"]
         # inv[p].message["container_instance_id"]
    /\ inv[p].message["LifecycleHookName"] = HookName
    /\ inv[p].message["retry_count"] = 3

\* C7: every retry message of an instance carries a retry_count one above
\* the number of retry messages published for the instance so far (the
\* first republish carries 2), and the published retry_count is above the
\* one received.
C7_RetryCountCountsRepublishes ==
  /\ \A m \in topic :
       (Has(m, "retry_count") /\ Has(m, "EC2InstanceId"))
         => m["retry_count"] = republished[m["EC2InstanceId"]] + 1
  /\ \A p \in Invocations :
       (Republished(p) /\ Has(inv[p].message, "retry_count"))
         => /\ inv[p].message["retry_count"]
                 = republished[inv[p].received["EC2InstanceId"]] + 1
            /\ inv[p].message["retry_count"] > RetryCount(inv[p].received)
            /\ ~Has(inv[p].received, "retry_count")
                 => inv[p].message["retry_count"] = 2

C7_Witness ==
  \E p \in Invocations :
    /\ Republished(p)
    /\ republished[inv[p].received["EC2InstanceId"]] = 3
    /\ inv[p].message["retry_count"] = 4
    /\ inv[p].message \in topic

\* container_instance_task_status has returned normally in invocation p.
StatusCheckReturned(p) ==
  /\ Called(p, "describe_container_instances") = 1
  /\ inv[p].pc \in {"publish", "complete", "done"}

\* Invocation p issued a set-DRAINING call for the container instance.
SetDraining(p, arn) ==
  \E n \in DOMAIN inv[p].calls :
    inv[p].calls[n] = Call("update_container_instances_state", arn, "ok")

\* C8: once the status check has returned, every described container
\* instance of the event's instance was described as DRAINING or was set
\* DRAINING by this invocation, and is DRAINING if it is still registered;
\* so it is when the invocation publishes or completes.
C8_TrackedInstanceIsDraining ==
  \A p \in Invocations :
    StatusCheckReturned(p)
      => \A n \in DOMAIN inv[p].described :
           LET entry == inv[p].described[n]
           IN entry.ec2InstanceId = inv[p].received["EC2InstanceId"]
                => /\ entry.status = "DRAINING"
                        \/ SetDraining(p, entry.containerInstanceArn)
                   /\ registered[entry.containerInstanceArn]
                        => status[entry.containerInstanceArn] = "DRAINING"

C8_Witness ==
  \E p \in Invocations :
    /\ StatusCheckReturned(p)
    /\ inv[p].pc = "done"
    /\ Called(p, "publish") = 1
    /\ \E n \in DOMAIN inv[p].described :
         LET entry == inv[p].described[n]
         IN /\ entry.ec2InstanceId = inv[p].received["EC2InstanceId"]
            /\ entry.status = "ACTIVE"
            /\ registered[entry.containerInstanceArn]
            /\ status[entry.containerInstanceArn] = "DRAINING"

\* The completion call of invocation p was rejected with a ClientError.
CompletionRejected(p) ==
  \E n \in DOMAIN inv[p].calls :
    inv[p].calls[n].api = "complete_lifecycle_action"
      /\ inv[p].calls[n].result = "ClientError"

\* C10: an invocation whose completion call was rejected with a ClientError
\* ends normally, with that call as its last remote call: one completion
\* call, no publish, the hook as Auto Scaling left it.
C10_RejectedCompletionIsSwallowed ==
  \A p \in Invocations :
    CompletionRejected(p)
      => /\ inv[p].pc = "done"
         /\ Called(p, "complete_lifecycle_action") = 1
         /\ Called(p, "publish") = 0
         /\ inv[p].calls[Len(inv[p].calls)].api = "complete_lifecycle_action"
         /\ hook[inv[p].received["EC2InstanceId"]] # "pending"

C10_Witness ==
  \E p \in Invocations :
    /\ CompletionRejected(p)
    /\ inv[p].pc = "done"
    /\ hook[inv[p].received["EC2InstanceId"]] = "expired"

(* ----------------------- the chain under fairness ---------------------- *)

\* The messages of the chain of instance i: the notification of the hook
\* and the retry messages derived from it.
ChainMessages(i) ==
  {TerminatingEvent(i)}
    \cup { Merge(Update(TerminatingEvent(i), "retry_count", k), a) :
             k \in 2..(MaxRetry + 1), a \in Arns }

\* A step of a running invocation.
Running(p) ==
  \/ GetEcsClusterName(p)
  \/ DescribeContainerInstances(p)
  \/ LoopStep(p)
  \/ ListTasks(p)
  \/ PublishToSns(p)
  \/ CompleteLifecycleAction(p)
  \/ Finish(p)

\* SNS delivers the message of a chain (a chain has one message at a time)
\* and Lambda runs every invocation to its end.
Fairness ==
  /\ \A p \in InvocationIds : WF_vars(p \in Invocations /\ Running(p))
  /\ \A i \in AsgInstances :
       SF_vars(\E p \in Invocations : \E m \in ChainMessages(i) : Receive(p, m))

\* The chains are followed from the clusters in which every EC2 instance has
\* one registered, active container instance.
FairInit ==
  /\ userData \in [Ec2Ids -> UserDataSamples]
  /\ \A i \in Ec2Ids \ AsgInstances : get_ecs_cluster_name(userData[i]).cluster_name = "prod"
  /\ ec2Of = [a \in Arns |-> IF a = "ci-1" THEN "i-1" ELSE "i-2"]
  /\ clusterOf = [a \in Arns |-> AgentCluster(userData[ec2Of[a]])]
  /\ registered = [a \in Arns |-> TRUE]
  /\ status = [a \in Arns |-> "ACTIVE"]
  /\ tasks \in [Arns -> 0..MaxTasks]
  /\ hook = [i \in Ec2Ids |-> IF i \in AsgInstances THEN "none" ELSE "no_hook"]
  /\ topic = {}
  /\ republished = [i \in Ec2Ids |-> 0]
  /\ inv = [p \in {1} |-> IdleInv]
  /\ backoff = NoBackoff

FairSpec == FairInit /\ [][Next]_vars /\ Fairness

\* No registered container instance of instance i has a task.
Drained(i) ==
  \A a \in Arns : (ec2Of[a] = i /\ registered[a]) => tasks[a] = 0

\* No invocation is held at publish_to_sns by the bound on retry_count.
WithinRetryBound ==
  \A p \in Invocations :
    inv[p].pc = "publish" => RetryCount(inv[p].message) <= MaxRetry

\* An invocation has issued the completion call for instance i.
CompletionIssued(i) ==
  \E p \in Invocations :
    /\ Called(p, "complete_lifecycle_action") = 1
    /\ inv[p].received["EC2InstanceId"] = i

\* No message of the chain of instance i is on the topic or being handled.
ChainEnded(i) ==
  /\ \A m \in topic : IsTerminating(m) => m["EC2InstanceId"] # i
  /\ \A p \in Invocations :
       (inv[p].pc # "idle" /\ IsTerminating(inv[p].received)
          /\ Has(inv[p].received, "EC2InstanceId"))
         => inv[p].received["EC2InstanceId"] # i

\* The user data of instance i lets get_ecs_cluster_name return.
Resolves(i) == ~get_ecs_cluster_name(userData[i]).raised

\* C9: under fair delivery, if the tasks of the instance eventually are and
\* stay gone (or its container instance is deregistered), then once the hook
\* is pending an invocation eventually issues the completion call, and from
\* the completion call on the chain has no message left.
C9_DrainedChainCompletes ==
  \A i \in AsgInstances :
    /\ (<>[]Drained(i) /\ []WithinRetryBound)
         => ((hook[i] = "pending") ~> CompletionIssued(i))
    /\ [](CompletionIssued(i) => ChainEnded(i) \/ \E p \in Invocations : inv[p].pc = "done")

\* The same for the instances whose user data resolves to a cluster name.
C9_DrainedChainCompletesIfResolved ==
  \A i \in AsgInstances :
    /\ (<>[]Drained(i) /\ []WithinRetryBound /\ Resolves(i))
         => ((hook[i] = "pending") ~> CompletionIssued(i))
    /\ [](CompletionIssued(i) => ChainEnded(i) \/ \E p \in Invocations : inv[p].pc = "done")

(* ----------------------- failing remote calls -------------------------- *)

\* The remote call the invocation is about to make during the cluster
\* resolution and the status check, with its target; none at the other
\* positions and in the iterations of the loop that make no call.
PendingCalls(p) ==
  LET id == inv[p].message["EC2InstanceId"] IN
  CASE inv[p].pc = "get_cluster" ->
         { << Call("describe_instance_attribute", id, "error") >> }
    [] inv[p].pc = "list_instances" ->
         { << Call("list_container_instances", inv[p].cluster_name, "error") >>,
           << Call("list_container_instances", inv[p].cluster_name, "ok"),
              Call("describe_container_instances", inv[p].cluster_name, "error") >> }
    [] inv[p].pc = "loop" ->
         LET entry == inv[p].described[inv[p].idx] IN
         IF Matches(entry, id) /\ NeedsDraining(entry.status)
         THEN { << Call("update_container_instances_state",
                        entry.containerInstanceArn, "error") >> }
         ELSE {}
    [] inv[p].pc = "list_tasks" ->
         { << Call("list_tasks", inv[p].container_instance_id, "error") >> }
    [] OTHER -> {}

OnRemoteErrorMut == "complete"

\* No try statement encloses these calls: the exception leaves
\* container_instance_task_status and lambda_handler.
OnRemoteError == "failed"

\* A remote call of the cluster resolution or of the status check raises.
RemoteCallFails(p) ==
  /\ inv[p].pc \in {"get_cluster", "list_instances", "loop", "list_tasks"}
  /\ \E c \in PendingCalls(p) :
       inv' = [inv EXCEPT ![p].calls = @ \o c,
                          ![p].pc = OnRemoteError]
  /\ UNCHANGED << remote, topic, republished, backoff >>

FaultNext == Next \/ \E p \in Invocations : RemoteCallFails(p)

FaultSpec == Init /\ [][FaultNext]_vars

\* A remote call of invocation p raised.
RemoteCallFailed(p) ==
  \E n \in DOMAIN inv[p].calls : inv[p].calls[n].result = "error"

\* C11: when a remote call of the cluster resolution or of the status check
\* raises, the invocation has failed, the failed call is its last call and
\* was made once, and it has made neither a publish nor a completion call.
C11_RemoteFailurePropagates ==
  \A p \in Invocations :
    RemoteCallFailed(p)
      => /\ inv[p].pc = "failed"
         /\ inv[p].calls[Len(inv[p].calls)].result = "error"
         /\ \A n \in 1..(Len(inv[p].calls) - 1) : inv[p].calls[n].result = "ok"
         /\ \A n \in 1..(Len(inv[p].calls) - 1) :
              inv[p].calls[n].api = inv[p].calls[Len(inv[p].calls)].api
                => inv[p].calls[n].target # inv[p].calls[Len(inv[p].calls)].target
         /\ Called(p, "publish") = 0
         /\ Called(p, "complete_lifecycle_action") = 0
         /\ inv[p].message \notin topic

C11_Witness ==
  \E p \in Invocations :
    /\ inv[p].pc = "failed"
    /\ Called(p, "update_container_instances_state") = 1
    /\ inv[p].calls[Len(inv[p].calls)] =
         Call("list_tasks", inv[p].container_instance_id, "error")
    /\ hook[inv[p].received["EC2InstanceId"]] = "pending"

(* ------------------- what the retry messages carry --------------------- *)

\* The fields of the notification Auto Scaling sent.
InitialKeys == DOMAIN TerminatingEvent("i-1")

\* The message is a retry message: it carries a retry_count.
IsRetry(msg) == Has(msg, "retry_count")

\* The message has the fields of the notification of its instance with
\* their initial values.
CarriesInitialFields(msg) ==
  /\ InitialKeys \subseteq DOMAIN msg
  /\ \A k \in InitialKeys : msg[k] = TerminatingEvent(msg["EC2InstanceId"])[k]

\* The completion calls made so far by invocation p.
CompletionCalls(p) ==
  { inv[p].calls[n] : n \in { k \in DOMAIN inv[p].calls :
                                inv[p].calls[k].api = "complete_lifecycle_action" } }

\* C12: every retry message carries the LifecycleHookName,
\* LifecycleTransition, AutoScalingGroupName and EC2InstanceId of the initial
\* notification and the container_instance_id resolved by the invocation
\* that published it; an invocation that received a retry message runs the
\* body of the handler, and its completion call has the hook name, group
\* name and instance id of the initial notification.
C12_RetryCarriesInitialFields ==
  /\ \A m \in topic :
       IsRetry(m) => CarriesInitialFields(m) /\ Has(m, "container_instance_id")
  /\ \A p \in Invocations :
       /\ Republished(p)
            => /\ CarriesInitialFields(inv[p].message)
               /\ inv[p].message["container_instance_id"]
                    = inv[p].container_instance_id
       /\ (inv[p].pc # "idle" /\ IsRetry(inv[p].received))
            => /\ IsTerminating(inv[p].received)
               /\ inv[p].pc \in {"done", "failed"} => inv[p].calls # << >>
               /\ \A c \in CompletionCalls(p) :
                    c.target = CompletionParameters(
                                 TerminatingEvent(inv[p].received["EC2InstanceId"]))

C12_Witness ==
  \E p \in Invocations :
    /\ inv[p].pc = "done"
    /\ IsRetry(inv[p].received)
    /\ inv[p].received["retry_count"] = 3
    /\ \E c \in CompletionCalls(p) :
         /\ c.result = "ok"
         /\ c.target = [LifecycleHookName |-> HookName,
                        AutoScalingGroupName |-> AsgName,
                        InstanceId |-> "i-1"]

(* ------------------------- duplicate delivery -------------------------- *)

\* The position of lambda_handler after parsing message m: KeyError on a
\* missing mandatory key, the body for a terminating transition, the end
\* otherwise.
FirstPosition(m) ==
  IF ~Has(m, "EC2InstanceId") \/ ~Has(m, "AutoScalingGroupName")
  THEN "failed"
  ELSE IF IsTerminating(m)
       THEN IF Has(m, "LifecycleHookName") THEN "get_cluster" ELSE "failed"
       ELSE "done"

\* SNS delivers the terminating message invocation q is handling a second
\* time: Lambda starts invocation p on it while q is running and before a
\* retry derived from the message has been published.
ReceiveDuplicate(p, q) ==
  /\ p # q
  /\ inv[p].pc = "idle"
  /\ inv[q].pc \notin {"idle", "done", "failed"}
  /\ republished[inv[q].received["EC2InstanceId"]] < RetryCount(inv[q].received)
  /\ LET m == inv[q].received
     IN inv' = [inv EXCEPT ![p] = [IdleInv EXCEPT !.pc = FirstPosition(m),
                                                  !.received = m,
                                                  !.message = m]]
  /\ UNCHANGED << remote, topic, republished, backoff >>

\* Two invocations; every EC2 instance has one registered container
\* instance in the cluster its user data names, and the instance that is not
\* terminating is active and idle.
DupInit ==
  /\ userData \in [Ec2Ids -> UserDataSamples]
  /\ \A i \in Ec2Ids : get_ecs_cluster_name(userData[i]) =
                         [raised |-> FALSE, cluster_name |-> "prod"]
  /\ ec2Of = [a \in Arns |-> IF a = "ci-1" THEN "i-1" ELSE "i-2"]
  /\ clusterOf = [a \in Arns |-> AgentCluster(userData[ec2Of[a]])]
  /\ registered = [a \in Arns |-> TRUE]
  /\ status \in [Arns -> {"ACTIVE", "DRAINING"}]
  /\ tasks \in [Arns -> 0..MaxTasks]
  /\ \A a \in Arns : ec2Of[a] \notin AsgInstances
                        => status[a] = "ACTIVE" /\ tasks[a] = 0
  /\ hook = [i \in Ec2Ids |-> IF i \in AsgInstances THEN "none" ELSE "no_hook"]
  /\ topic = {}
  /\ republished = [i \in Ec2Ids |-> 0]
  /\ inv = [p \in InvocationIds |-> IdleInv]
  /\ backoff = NoBackoff

DupNext ==
  \/ \E i \in Ec2Ids : AsgTerminate(i)
  \/ \E a \in Arns : TaskStops(a)
  \/ \E i \in Ec2Ids : HookTimeout(i)
  \/ \E p \in Invocations : Handler(p)
  \/ \E p \in Invocations : \E q \in Invocations : ReceiveDuplicate(p, q)

DupSpec == DupInit /\ [][DupNext]_vars

\* Invocations p and q handle the same terminating message and both have
\* made their completion call.
BothCompleted(p, q) ==
  /\ p # q
  /\ inv[p].pc # "idle" /\ inv[q].pc # "idle"
  /\ inv[p].received = inv[q].received
  /\ Called(p, "complete_lifecycle_action") = 1
  /\ Called(q, "complete_lifecycle_action") = 1

\* The number of the two completion calls Auto Scaling accepted.
Accepted(p, q) ==
  Cardinality({ r \in {p, q} : \E c \in CompletionCalls(r) : c.result = "ok" })

\* C13: when two invocations of the same terminating message have both made
\* the completion call, at most one call was accepted and the other was
\* rejected, both invocations end normally without a publish, and the hook
\* is no longer pending: it is completed if one of the calls was accepted
\* (a call is only accepted while the hook is pending, so it is completed
\* once).
C13_DuplicateCompletionTolerated ==
  \A p \in Invocations : \A q \in Invocations :
    BothCompleted(p, q)
      => /\ inv[p].pc = "done" /\ inv[q].pc = "done"
         /\ Called(p, "publish") = 0 /\ Called(q, "publish") = 0
         /\ Accepted(p, q) <= 1
         /\ CompletionRejected(p) \/ CompletionRejected(q)
         /\ LET id == inv[p].received["EC2InstanceId"]
            IN /\ hook[id] \in {"completed", "expired"}
               /\ Accepted(p, q) = 1 => hook[id] = "completed"

C13_Witness ==
  \E p \in Invocations : \E q \in Invocations :
    /\ BothCompleted(p, q)
    /\ ListedTasks(p) /\ ListedTasks(q)
    /\ Accepted(p, q) = 1
    /\ CompletionRejected(q)
    /\ hook[inv[p].received["EC2InstanceId"]] = "completed"

(* ------------------ the cluster resolution on its own ------------------ *)

\* The tokens of the boot configurations, split at "=": a word, two
\* KEY=value tokens of the marker, the marker alone and another assignment.
TokenAlphabet ==
  { <<"echo">>, <<"ECS_CLUSTER", "prod-cluster">>, <<"ECS_CLUSTER", "stage">>,
    <<"ECS_CLUSTER">>, <<"FOO", "bar">> }

\* userdata_decoded.split(): the token sequences of up to MaxTokens tokens.
BootConfigurations == UNION { [1..n -> TokenAlphabet] : n \in 0..MaxTokens }

\* An invocation about to resolve the cluster of the terminating instance
\* i-1, for every boot configuration of the instance.
ClusterInit ==
  /\ userData \in [Ec2Ids -> BootConfigurations]
  /\ \A i \in Ec2Ids \ AsgInstances : userData[i] = << >>
  /\ ec2Of = [a \in Arns |-> IF a = "ci-1" THEN "i-1" ELSE "i-2"]
  /\ clusterOf = [a \in Arns |-> AgentCluster(userData[ec2Of[a]])]
  /\ registered = [a \in Arns |-> TRUE]
  /\ status = [a \in Arns |-> "ACTIVE"]
  /\ tasks = [a \in Arns |-> 0]
  /\ hook = [i \in Ec2Ids |-> IF i \in AsgInstances THEN "pending" ELSE "no_hook"]
  /\ topic = {}
  /\ republished = [i \in Ec2Ids |-> 0]
  /\ inv = [p \in {1} |-> [IdleInv EXCEPT !.pc = "get_cluster",
                                          !.received = TerminatingEvent("i-1"),
                                          !.message = TerminatingEvent("i-1")]]
  /\ backoff = NoBackoff

ClusterNext == \E p \in Invocations : GetEcsClusterName(p)

ClusterSpec == ClusterInit /\ [][ClusterNext]_vars

\* get_ecs_cluster_name has been applied by invocation p.
Resolved(p) == Called(p, "describe_instance_attribute") = 1

\* The boot configuration invocation p read.
BootConfiguration(p) == userData[inv[p].received["EC2InstanceId"]]

\* The positions of the tokens with the marker, and of those with the
\* marker in KEY=value shape.
MarkerTokens(tokens) == { n \in DOMAIN tokens : HasClusterMarker(tokens[n]) }

KeyValueTokens(tokens) == { n \in MarkerTokens(tokens) : Len(tokens[n]) = 2 }

\* C14: for every boot configuration get_ecs_cluster_name returns a cluster
\* name: the value of a marker token in KEY=value shape when there is one,
\* "default" when no token contains the marker.
C14_ClusterNameResolved ==
  \A p \in Invocations :
    Resolved(p)
      => LET tokens == BootConfiguration(p)
         IN /\ inv[p].pc = "list_instances"
            /\ KeyValueTokens(tokens) # {}
                 => \E n \in KeyValueTokens(tokens) :
                      inv[p].cluster_name = tokens[n][2]
            /\ MarkerTokens(tokens) = {}
                 => inv[p].cluster_name = DefaultCluster

\* The same for the boot configurations in which every marker token has the
\* KEY=value shape; the value is that of the last marker token.
C14_ClusterNameResolvedIfKeyValue ==
  \A p \in Invocations :
    (Resolved(p) /\ MarkerTokens(BootConfiguration(p))
                      = KeyValueTokens(BootConfiguration(p)))
      => LET tokens == BootConfiguration(p)
         IN /\ inv[p].pc = "list_instances"
            /\ \A n \in KeyValueTokens(tokens) :
                 (\A k \in KeyValueTokens(tokens) : k <= n)
                   => inv[p].cluster_name = tokens[n][2]
            /\ MarkerTokens(tokens) = {}
                 => inv[p].cluster_name = DefaultCluster

(* ----------------------- the set-DRAINING calls ------------------------ *)

\* The number of set-DRAINING calls invocation p made for a container
\* instance.
SetDrainingCalls(p, arn) ==
  Cardinality({ n \in DOMAIN inv[p].calls :
                  /\ inv[p].calls[n].api = "update_container_instances_state"
                  /\ inv[p].calls[n].target = arn })

\* The described container instances the loop of invocation p has passed.
Passed(p) ==
  { n \in DOMAIN inv[p].described : n < inv[p].idx \/ inv[p].pc # "loop" }

\* C15: for each described container instance the loop has passed, the
\* invocation made no set-DRAINING call if it does not match the event's
\* instance or was described as DRAINING, and exactly one otherwise; an
\* invocation that received a retry message makes no set-DRAINING call, the
\* first invocation of the chain having made it.
C15_SetDrainingOnceInFirstInvocation ==
  \A p \in Invocations :
    /\ \A n \in Passed(p) :
         LET entry == inv[p].described[n]
         IN SetDrainingCalls(p, entry.containerInstanceArn) =
              IF /\ entry.ec2InstanceId = inv[p].received["EC2InstanceId"]
                 /\ entry.status # "DRAINING"
              THEN 1 ELSE 0
    /\ Called(p, "update_container_instances_state")
         <= Cardinality(Passed(p))
    /\ (inv[p].pc # "idle" /\ IsRetry(inv[p].received))
         => Called(p, "update_container_instances_state") = 0

C15_Witness ==
  \E p \in Invocations :
    /\ inv[p].pc = "done"
    /\ IsRetry(inv[p].received)
    /\ Called(p, "update_container_instances_state") = 0
    /\ \E n \in DOMAIN inv[p].described :
         /\ inv[p].described[n].ec2InstanceId = inv[p].received["EC2InstanceId"]
         /\ inv[p].described[n].status = "DRAINING"
    /\ \E a \in Arns : registered[a] /\ status[a] = "ACTIVE"

(* --------------------- concurrent terminations ------------------------- *)

\* Two invocations and two instances of the group, each with one registered
\* container instance in the same cluster.
ConcInit ==
  /\ userData = [i \in Ec2Ids |-> << <<"ECS_CLUSTER", "prod">> >>]
  /\ ec2Of = [a \in Arns |-> IF a = "ci-1" THEN "i-1" ELSE "i-2"]
  /\ clusterOf = [a \in Arns |-> AgentCluster(userData[ec2Of[a]])]
  /\ registered = [a \in Arns |-> TRUE]
  /\ status \in [Arns -> {"ACTIVE", "DRAINING"}]
  /\ tasks \in [Arns -> 0..MaxTasks]
  /\ hook = [i \in Ec2Ids |-> "none"]
  /\ topic = {}
  /\ republished = [i \in Ec2Ids |-> 0]
  /\ inv = [p \in InvocationIds |-> IdleInv]
  /\ backoff = NoBackoff

ConcNext ==
  \/ \E i \in Ec2Ids : AsgTerminate(i)
  \/ \E a \in Arns : TaskStops(a)
  \/ \E p \in Invocations : Handler(p)

ConcSpec == ConcInit /\ [][ConcNext]_vars

\* The instance of the event invocation p handles.
OwnInstance(p) == inv[p].received["EC2InstanceId"]

\* Invocation p is in the body of the handler.
InBody(p) == inv[p].pc # "idle" /\ IsTerminating(inv[p].received)

\* Every call of invocation p has its own instance, or a container instance
\* of its own instance, as target.
TargetsOwnInstance(p) ==
  \A n \in DOMAIN inv[p].calls :
    LET c == inv[p].calls[n] IN
    /\ c.api \in {"update_container_instances_state", "list_tasks"}
         => ec2Of[c.target] = OwnInstance(p)
    /\ c.api \in {"describe_instance_attribute", "publish"}
         => c.target = OwnInstance(p)
    /\ c.api = "complete_lifecycle_action"
         => c.target["InstanceId"] = OwnInstance(p)

\* The outcome of list_tasks in a step of invocation p is the one the
\* state of its own container instance gives.
OwnOutcome(p) ==
  (inv[p].pc = "list_tasks" /\ inv'[p].pc # "list_tasks")
    => LET cid == inv[p].container_instance_id
       IN /\ ec2Of[cid] = OwnInstance(p)
          /\ inv'[p].running_task_count = tasks[cid]
          /\ inv'[p].pc = IF tasks[cid] > 0 THEN "publish" ELSE "complete"

\* A step changes the status or the hook of an instance only on behalf of
\* an invocation handling that instance.
OwnEffects ==
  /\ \A a \in Arns :
       status'[a] # status[a]
         => \E p \in Invocations : InBody(p) /\ inv[p].pc = "loop"
                                    /\ OwnInstance(p) = ec2Of[a]
  /\ \A i \in Ec2Ids :
       (hook'[i] # hook[i] /\ hook[i] # "none")
         => \E p \in Invocations : InBody(p) /\ inv[p].pc = "complete"
                                    /\ OwnInstance(p) = i

\* C16: in every interleaving of the invocations, the set-DRAINING,
\* list_tasks, publish and completion calls of an invocation have its own
\* instance as target, the status and hook of an instance change only in a
\* step of an invocation handling it, and the outcome of an invocation is
\* decided by the tasks of its own container instance.
C16_InvocationsAreIndependent ==
  /\ [](\A p \in InvocationIds : (p \in Invocations /\ InBody(p))
                                   => TargetsOwnInstance(p))
  /\ [][OwnEffects /\ \A p \in Invocations : OwnOutcome(p)]_vars

C16_Witness ==
  \E p \in Invocations : \E q \in Invocations :
    /\ InBody(p) /\ InBody(q)
    /\ OwnInstance(p) = "i-1" /\ OwnInstance(q) = "i-2"
    /\ inv[p].pc = "done" /\ Called(p, "publish") = 1
    /\ Called(p, "update_container_instances_state") = 1
    /\ inv[q].pc = "done" /\ Called(q, "complete_lifecycle_action") = 1
    /\ Called(q, "update_container_instances_state") = 1
    /\ hook["i-1"] = "pending" /\ hook["i-2"] = "completed"

(* ---------------------------- no retry cap ----------------------------- *)

\* Invocation p leaves publish_to_sns in this step.
LeavesPublish(p) == inv[p].pc = "publish" /\ inv'[p] # inv[p]

WithoutCarriedState(msg) ==
  [k \in DOMAIN msg \ {"retry_count", "container_instance_id"} |-> msg[k]]

\* The container instance the loop over a description leaves selected for an
\* EC2 instance: the last entry of that instance, None when there is none.
LastMatch(described, id) ==
  LET S == { n \in DOMAIN described : described[n].ec2InstanceId = id }
  IN IF S = {} THEN None
     ELSE described[CHOOSE n \in S : \A k \in S : k <= n].containerInstanceArn

\* The set-DRAINING calls of the loop over a description, in order: one per
\* entry of the EC2 instance that the description does not show DRAINING.
RECURSIVE DrainTargets(_, _)
DrainTargets(described, id) ==
  IF described = << >> THEN << >>
  ELSE (IF Head(described).ec2InstanceId = id /\ Head(described).status # "DRAINING"
        THEN << Head(described).containerInstanceArn >> ELSE << >>)
       \o DrainTargets(Tail(described), id)

\* The calls of a whole invocation, api and target, as a function of the
\* message without its carried state, of the cluster name the user data
\* resolves to, of the description returned and of the number of tasks
\* listed.
ExpectedCalls(low, cluster, described, count) ==
  LET id == low["EC2InstanceId"]
      cid == LastMatch(described, id)
      drains == DrainTargets(described, id)
  IN << << "describe_instance_attribute", id >>,
        << "list_container_instances", cluster >>,
        << "describe_container_instances", cluster >> >>
     \o [n \in DOMAIN drains |-> << "update_container_instances_state", drains[n] >>]
     \o (IF cid # None THEN << << "list_tasks", cid >> >> ELSE << >>)
     \o (IF cid # None /\ count > 0
         THEN << << "publish", id >> >>
         ELSE << << "complete_lifecycle_action", CompletionParameters(low) >> >>)

\* The calls invocation p issued, api and target.
IssuedCalls(p) ==
  [n \in DOMAIN inv[p].calls |-> << inv[p].calls[n].api, inv[p].calls[n].target >>]

\* Invocation p handled a termination message to its normal end.
HandledTermination(p) ==
  inv[p].pc = "done" /\ ~NotTerminating(inv[p].received)

\* C18: the calls of an invocation that handled a termination message to
\* its end, and the container instance it selected, are determined by the
\* message without retry_count and container_instance_id and by what the
\* cluster manager returned; the container_instance_id it publishes is the
\* one it selected, and retry_count only shows in the published retry_count.
\* An invocation that raised made at most the user-data read of the
\* instance the message names.
C18_CallsIgnoreCarriedState ==
  \A p \in Invocations :
    /\ (inv[p].pc = "failed" /\ inv[p].calls # << >>)
         => IssuedCalls(p) = << << "describe_instance_attribute",
                                  inv[p].received["EC2InstanceId"] >> >>
    /\ HandledTermination(p)
      => LET low == WithoutCarriedState(inv[p].received)
             id == low["EC2InstanceId"]
         IN /\ IssuedCalls(p) = ExpectedCalls(low, inv[p].cluster_name,
                                              inv[p].described,
                                              inv[p].running_task_count)
            /\ inv[p].container_instance_id = LastMatch(inv[p].described, id)
            /\ Republished(p)
                 => /\ inv[p].message["container_instance_id"]
                         = LastMatch(inv[p].described, id)
                    /\ WithoutCarriedState(inv[p].message) = low

C18_Witness ==
  \E p \in Invocations :
    /\ HandledTermination(p)
    /\ RetryCount(inv[p].received) >= 1
    /\ Has(inv[p].received, "container_instance_id")
    /\ inv[p].container_instance_id # None
    /\ inv[p].container_instance_id # inv[p].received["container_instance_id"]
    /\ Republished(p)

====
